---- MODULE Spec2Model ----
(***************************************************************************)
(* Per-identity admission control of goit-algo2-hw-08.                     *)
(*                                                                         *)
(*   task01/main.py  SlidingWindowRateLimiter  (user_windows)              *)
(*   task02/main.py  ThrottlingRateLimiter     (last_message_time)         *)
(*                                                                         *)
(* The two scripts are separate programs; a behaviour of this module is a  *)
(* run of one of them (variable program).  Time is time.time(), modelled   *)
(* as an integer number of clock ticks that never decreases.  Every method *)
(* is one action; a method that reads the clock twice (record_message      *)
(* reads it itself and again inside the can_send_message it calls) gets    *)
(* two readings, the second at or after the first.                         *)
(***************************************************************************)
EXTENDS Integers, Sequences, FiniteSets

\* ------------------------------------------------------------------ bounds
MaxTime == 5          \* the clock runs over 0..MaxTime
MaxWindow == 2        \* window_size ranges over 1..MaxWindow and the default
MaxRequests == 2      \* max_requests ranges over 1..MaxRequests
MaxInterval == 2      \* min_interval ranges over 1..MaxInterval and the default
MaxDrift == 1         \* ticks the clock may advance between two reads of one call

\* ------------------------------------------------------- program constants
DefaultWindowSize == 10     \* window_size: int = 10
DefaultMaxRequests == 1     \* max_requests: int = 1
DefaultMinInterval == 10    \* min_interval: float = 10.0

Users == {"a", "b"}
Time == 0..MaxTime

VARIABLES
    program,            \* "task01" or "task02": which script is running
    clock,              \* the last value time.time() returned
    window_size,        \* SlidingWindowRateLimiter.window_size
    max_requests,       \* SlidingWindowRateLimiter.max_requests
    user_windows,       \* SlidingWindowRateLimiter.user_windows: dict user -> deque
    min_interval,       \* ThrottlingRateLimiter.min_interval
    last_message_time,  \* ThrottlingRateLimiter.last_message_time: dict user -> float
    watch,              \* observer: what is being observed in this run, one
                        \* of "calls" (last), "audit" (audit), "probe" (probe
                        \* and the time_until_next_allowed calls in last)
    last,               \* observer: the last call, its clock readings, its return
                        \* value and the store it found
    audit,              \* observer: per user, the timestamps recorded by the
                        \* accepted record_message calls, in call order; of
                        \* task01 back to window_size before the newest one,
                        \* of task02 the newest one only
    probe,              \* observer: one earlier time_until_next_allowed call,
                        \* kept until its user has a record accepted
    threads             \* per thread calling record_message on the shared
                        \* limiter: the statement it is at, and its locals

vars == <<program, clock, window_size, max_requests, user_windows,
          min_interval, last_message_time, watch, last, audit, probe,
          threads>>

\* ---------------------------------------------------------- dict helpers
\* d[k] = v  (creates the key when it is absent)
DictSet(d, k, v) == [x \in (DOMAIN d) \cup {k} |-> IF x = k THEN v ELSE d[x]]

\* del d[k]
DictDel(d, k) == [x \in (DOMAIN d) \ {k} |-> d[x]]

\* max(wait, 0.0)
Max0(wait) == IF wait > 0 THEN wait ELSE 0

\* ================================================= SlidingWindowRateLimiter

\* while window and window[0] <= cutoff: window.popleft()
RECURSIVE popleft_expired(_, _)
popleft_expired(window, cutoff) ==
    IF window # <<>> /\ Head(window) <= cutoff
    THEN popleft_expired(Tail(window), cutoff)
    ELSE window

\* variant of _cleanup_window: a timestamp exactly at the cutoff is kept
\* (window[0] < cutoff)
RECURSIVE popleft_before(_, _)
popleft_before(window, cutoff) ==
    IF window # <<>> /\ Head(window) < cutoff
    THEN popleft_before(Tail(window), cutoff)
    ELSE window

cleanup_window_keeps_cutoff(windows, user_id, current_time) ==
    IF user_id \notin DOMAIN windows
    THEN windows
    ELSE LET cutoff == current_time - window_size
             window == popleft_before(windows[user_id], cutoff)
         IN  IF window = <<>>
             THEN DictDel(windows, user_id)
             ELSE DictSet(windows, user_id, window)

\* variant of _cleanup_window: every user's deque is pruned, not user_id's only
cleanup_window_all_users(windows, user_id, current_time) ==
    LET cutoff == current_time - window_size
        kept == {x \in DOMAIN windows :
                    popleft_expired(windows[x], cutoff) # <<>>}
    IN  [x \in kept |-> popleft_expired(windows[x], cutoff)]


\* variant of _cleanup_window: an emptied deque stays in the dict
cleanup_window_keeps_empty(windows, user_id, current_time) ==
    IF user_id \notin DOMAIN windows
    THEN windows
    ELSE DictSet(windows, user_id,
                 popleft_expired(windows[user_id], current_time - window_size))

\* _cleanup_window: the store after pruning user_id's deque at current_time
cleanup_window(windows, user_id, current_time) ==
    IF user_id \notin DOMAIN windows
    THEN windows
    ELSE LET cutoff == current_time - window_size
             window == popleft_expired(windows[user_id], cutoff)
         IN  IF window = <<>>
             THEN DictDel(windows, user_id)
             ELSE DictSet(windows, user_id, window)


\* variant of the limit test: a window already holding max_requests timestamps
\* still passes
under_limit_inclusive(windows, user_id) ==
    user_id \notin DOMAIN windows \/ Len(windows[user_id]) <= max_requests

\* the limit test of can_send_message on an already pruned store
under_limit(windows, user_id) ==
    user_id \notin DOMAIN windows \/ Len(windows[user_id]) < max_requests

\* variant of can_send_message: the limit is tested on the store as found,
\* before the cleanup
SW_can_send_message_stale(windows, user_id, now) ==
    [store |-> cleanup_window(windows, user_id, now),
     result |-> under_limit(windows, user_id)]

\* variant of can_send_message: an allowed request is recorded at once
SW_can_send_message_recording(windows, user_id, now) ==
    LET cleaned == cleanup_window(windows, user_id, now)
        window == IF user_id \in DOMAIN cleaned THEN cleaned[user_id] ELSE <<>>
    IN  IF under_limit(cleaned, user_id)
        THEN [store |-> DictSet(cleaned, user_id, Append(window, now)),
              result |-> TRUE]
        ELSE [store |-> cleaned, result |-> FALSE]

\* can_send_message reading the clock as now: the store it leaves, its result
SW_can_send_message(windows, user_id, now) ==
    LET cleaned == cleanup_window(windows, user_id, now)
    IN  [store |-> cleaned, result |-> under_limit(cleaned, user_id)]


\* variant of record_message: the timestamp is put at the front of the deque
SW_record_message_appendleft(windows, user_id, now, now2) ==
    LET cleaned == cleanup_window(windows, user_id, now)
        can == SW_can_send_message(cleaned, user_id, now2)
    IN  IF can.result
        THEN LET window == IF user_id \in DOMAIN can.store
                           THEN can.store[user_id] ELSE <<>>
             IN  [store |-> DictSet(can.store, user_id, <<now>> \o window),
                  result |-> TRUE]
        ELSE [store |-> can.store, result |-> FALSE]

\* record_message reading the clock as now; the can_send_message it calls
\* reads the clock again, as now2
SW_record_message(windows, user_id, now, now2) ==
    LET cleaned == cleanup_window(windows, user_id, now)
        can == SW_can_send_message(cleaned, user_id, now2)
    IN  IF can.result
        THEN LET window == IF user_id \in DOMAIN can.store
                           THEN can.store[user_id] ELSE <<>>
             IN  [store |-> DictSet(can.store, user_id, Append(window, now)),
                  result |-> TRUE]
        ELSE [store |-> can.store, result |-> FALSE]

\* variant of time_until_next_allowed: the wait is counted from the newest
\* timestamp (window[-1])
SW_time_until_next_allowed_newest(windows, user_id, now) ==
    LET cleaned == cleanup_window(windows, user_id, now)
    IN  IF user_id \notin DOMAIN cleaned
        THEN [store |-> cleaned, wait |-> 0]
        ELSE IF Len(cleaned[user_id]) < max_requests
             THEN [store |-> cleaned, wait |-> 0]
             ELSE [store |-> cleaned,
                   wait |-> Max0(cleaned[user_id][Len(cleaned[user_id])]
                                     + window_size - now)]

\* time_until_next_allowed reading the clock as now
SW_time_until_next_allowed(windows, user_id, now) ==
    LET cleaned == cleanup_window(windows, user_id, now)
    IN  IF user_id \notin DOMAIN cleaned
        THEN [store |-> cleaned, wait |-> 0]
        ELSE IF Len(cleaned[user_id]) < max_requests
             THEN [store |-> cleaned, wait |-> 0]
             ELSE [store |-> cleaned,
                   wait |-> Max0(Head(cleaned[user_id]) + window_size - now)]

\* ==================================================== ThrottlingRateLimiter

\* variant of can_send_message: the boundary is exclusive (> min_interval)
TH_can_send_message_exclusive(times, user_id, now) ==
    user_id \notin DOMAIN times \/ (now - times[user_id]) > min_interval

\* can_send_message reading the clock as now
TH_can_send_message(times, user_id, now) ==
    user_id \notin DOMAIN times \/ (now - times[user_id]) >= min_interval


\* variant of record_message: the time is stored whatever the answer is
TH_record_message_always_stores(times, user_id, now, now2) ==
    [store |-> DictSet(times, user_id, now),
     result |-> TH_can_send_message(times, user_id, now2)]

\* record_message reading the clock as now; the can_send_message it calls
\* reads the clock again, as now2
TH_record_message(times, user_id, now, now2) ==
    IF TH_can_send_message(times, user_id, now2)
    THEN [store |-> DictSet(times, user_id, now), result |-> TRUE]
    ELSE [store |-> times, result |-> FALSE]

\* variant of time_until_next_allowed: the wait is returned without max(., 0.0)
TH_time_until_next_allowed_unclamped(times, user_id, now) ==
    IF user_id \notin DOMAIN times
    THEN 0
    ELSE min_interval - (now - times[user_id])

\* time_until_next_allowed reading the clock as now
TH_time_until_next_allowed(times, user_id, now) ==
    IF user_id \notin DOMAIN times
    THEN 0
    ELSE Max0(min_interval - (now - times[user_id]))

\* ================================================================ the runs

NoCall == [op |-> "none", user |-> "a", now |-> 0, now2 |-> 0,
           result |-> TRUE, wait |-> 0, before |-> <<>>]

NoProbe == [user |-> "none", at |-> 0, wait |-> 0]

\* what last holds after a can_send_message or record_message call
Seen(call) == IF watch = "calls" THEN call ELSE NoCall

\* what last holds after a time_until_next_allowed call
SeenWait(call) == IF watch \in {"calls", "probe"} THEN call ELSE NoCall

\* the observer may keep the probe it has or take the call just made
Probes(u, now, wait) ==
    IF watch = "probe"
    THEN {probe, [user |-> u, at |-> now, wait |-> wait]}
    ELSE {probe}

\* the probe after a record_message of u that returned result
Unprobe(u, result) == IF result /\ probe.user = u THEN NoProbe ELSE probe

\* the audit trail of a user after a record_message that returned result and
\* stored timestamp now
Audited(trail, result, now) ==
    IF watch = "audit" /\ result
    THEN Append(SelectSeq(trail, LAMBDA t : t > now - window_size), now)
    ELSE trail

\* the threads sharing one limiter
Threads == {1, 2}

\* a thread that has not called record_message yet
Idle == [pc |-> "idle", user_id |-> "a", now |-> 0, result |-> FALSE]

\* task02: the audit trail of a user after a record_message that returned
\* result and recorded now; only the newest accepted timestamp is kept
LastAudited(trail, result, now) ==
    IF watch = "audit" /\ result THEN <<now>> ELSE trail

\* the configurations of task01: small ones, and the driver's (10, 1)
Configs == ((1..MaxWindow) \X (1..MaxRequests))
               \cup {<<DefaultWindowSize, DefaultMaxRequests>>}

\* SlidingWindowRateLimiter(window_size, max_requests) or
\* ThrottlingRateLimiter(min_interval), with positive configuration
Init ==
    /\ program \in {"task01", "task02"}
    /\ clock = 0
    /\ \E cfg \in IF program = "task01"
                   THEN Configs
                   ELSE {<<DefaultWindowSize, DefaultMaxRequests>>} :
           /\ window_size = cfg[1]
           /\ max_requests = cfg[2]
    /\ min_interval \in IF program = "task02"
                        THEN (1..MaxInterval) \cup {DefaultMinInterval}
                        ELSE {DefaultMinInterval}
    /\ user_windows = <<>>
    /\ last_message_time = <<>>
    /\ watch \in {"calls", "audit", "probe"}
    /\ last = NoCall
    /\ audit = [u \in Users |-> <<>>]
    /\ probe = NoProbe
    /\ threads = [t \in Threads |-> Idle]

\* time passes between two calls (time.sleep in the drivers); no call has
\* just returned any more
Tick ==
    /\ clock < MaxTime
    /\ clock' = clock + 1
    /\ last' = NoCall
    /\ UNCHANGED <<threads, program, window_size, max_requests, user_windows,
                   min_interval, last_message_time, watch, audit, probe>>

\* the readings the clock can give after a reading of t inside one call
Later(t) == {t2 \in Time : t <= t2 /\ t2 <= t + MaxDrift}

SlidingCanSend(u) ==
    /\ program = "task01"
    /\ LET r == SW_can_send_message(user_windows, u, clock)
       IN  /\ user_windows' = r.store
           /\ last' = Seen([op |-> "can_send_message", user |-> u,
                            now |-> clock, now2 |-> clock,
                            result |-> r.result, wait |-> 0,
                            before |-> user_windows])
    /\ UNCHANGED <<threads, program, clock, window_size, max_requests, min_interval,
                   last_message_time, watch, audit, probe>>

SlidingRecord(u) ==
    /\ program = "task01"
    /\ \E now2 \in Later(clock) :
         LET r == SW_record_message(user_windows, u, clock, now2)
         IN  /\ user_windows' = r.store
             /\ clock' = now2
             /\ last' = Seen([op |-> "record_message", user |-> u,
                              now |-> clock, now2 |-> now2,
                              result |-> r.result, wait |-> 0,
                              before |-> user_windows])
             /\ audit' = [audit EXCEPT ![u] = Audited(@, r.result, clock)]
             /\ probe' = Unprobe(u, r.result)
    /\ UNCHANGED <<threads, program, window_size, max_requests, min_interval,
                   last_message_time, watch>>

SlidingTimeUntil(u) ==
    /\ program = "task01"
    /\ LET r == SW_time_until_next_allowed(user_windows, u, clock)
       IN  /\ user_windows' = r.store
           /\ last' = SeenWait([op |-> "time_until_next_allowed", user |-> u,
                                now |-> clock, now2 |-> clock,
                                result |-> TRUE, wait |-> r.wait,
                                before |-> user_windows])
           /\ probe' \in Probes(u, clock, r.wait)
    /\ UNCHANGED <<threads, program, clock, window_size, max_requests, min_interval,
                   last_message_time, watch, audit>>

ThrottlingCanSend(u) ==
    /\ program = "task02"
    /\ last' = Seen([op |-> "can_send_message", user |-> u, now |-> clock,
                     now2 |-> clock,
                     result |->
                         TH_can_send_message(last_message_time, u, clock),
                     wait |-> 0, before |-> last_message_time])
    /\ UNCHANGED <<threads, program, clock, window_size, max_requests, user_windows,
                   min_interval, last_message_time, watch, audit, probe>>

ThrottlingRecord(u) ==
    /\ program = "task02"
    /\ \E now2 \in Later(clock) :
         LET r == TH_record_message(last_message_time, u, clock, now2)
         IN  /\ last_message_time' = r.store
             /\ clock' = now2
             /\ last' = Seen([op |-> "record_message", user |-> u,
                              now |-> clock, now2 |-> now2,
                              result |-> r.result, wait |-> 0,
                              before |-> last_message_time])
             /\ audit' = [audit EXCEPT ![u] = LastAudited(@, r.result, clock)]
             /\ probe' = Unprobe(u, r.result)
    /\ UNCHANGED <<threads, program, window_size, max_requests, user_windows,
                   min_interval, watch>>

ThrottlingTimeUntil(u) ==
    /\ program = "task02"
    /\ LET w == TH_time_until_next_allowed(last_message_time, u, clock)
       IN  /\ last' = SeenWait([op |-> "time_until_next_allowed", user |-> u,
                                now |-> clock, now2 |-> clock,
                                result |-> TRUE, wait |-> w,
                                before |-> last_message_time])
           /\ probe' \in Probes(u, clock, w)
    /\ UNCHANGED <<threads, program, clock, window_size, max_requests, user_windows,
                   min_interval, last_message_time, watch, audit>>

Next ==
    \/ Tick
    \/ \E u \in Users : SlidingCanSend(u)
    \/ \E u \in Users : SlidingRecord(u)
    \/ \E u \in Users : SlidingTimeUntil(u)
    \/ \E u \in Users : ThrottlingCanSend(u)
    \/ \E u \in Users : ThrottlingRecord(u)
    \/ \E u \in Users : ThrottlingTimeUntil(u)

Spec == Init /\ [][Next]_vars

\* ------------------------------------------------- record_message, by statement
\* The classes take no lock: two threads calling record_message on one limiter
\* interleave between its statements. A thread is at "idle", at a statement of
\* record_message ("now", "cleanup", "check", "write"), or "done" with its
\* return value in result.
At(t, pc) == [threads EXCEPT ![t].pc = pc]

\* thread t calls record_message(u)
ThreadCall(t, u) ==
    /\ threads[t].pc = "idle"
    /\ threads' = [threads EXCEPT ![t].pc = "now", ![t].user_id = u]
    /\ UNCHANGED <<program, clock, window_size, max_requests, user_windows,
                   min_interval, last_message_time, watch, last, audit, probe>>

\* now = time.time()
ThreadNow(t) ==
    /\ threads[t].pc = "now"
    /\ threads' = [threads EXCEPT ![t].now = clock,
                     ![t].pc = IF program = "task01" THEN "cleanup" ELSE "check"]
    /\ UNCHANGED <<program, clock, window_size, max_requests, user_windows,
                   min_interval, last_message_time, watch, last, audit, probe>>

\* task01: self._cleanup_window(user_id, now)
ThreadCleanup(t) ==
    /\ threads[t].pc = "cleanup"
    /\ user_windows' = cleanup_window(user_windows, threads[t].user_id,
                                      threads[t].now)
    /\ threads' = At(t, "check")
    /\ UNCHANGED <<program, clock, window_size, max_requests, min_interval,
                   last_message_time, watch, last, audit, probe>>

\* if self.can_send_message(user_id): the call reads the clock itself
ThreadCheck(t) ==
    /\ threads[t].pc = "check"
    /\ LET u == threads[t].user_id
           can == IF program = "task01"
                  THEN SW_can_send_message(user_windows, u, clock)
                  ELSE [store |-> user_windows,
                        result |-> TH_can_send_message(last_message_time, u,
                                                       clock)]
       IN  /\ user_windows' = can.store
           /\ threads' = [threads EXCEPT ![t].result = can.result,
                            ![t].pc = IF can.result THEN "write" ELSE "done"]
    /\ UNCHANGED <<program, clock, window_size, max_requests, min_interval,
                   last_message_time, watch, last, audit, probe>>

\* task01: self.user_windows[user_id].append(now), on a new deque when the
\* key is absent; task02: self.last_message_time[user_id] = now; return True
ThreadWrite(t) ==
    /\ threads[t].pc = "write"
    /\ LET u == threads[t].user_id
       IN  IF program = "task01"
           THEN /\ user_windows' = DictSet(user_windows, u,
                       Append(IF u \in DOMAIN user_windows
                              THEN user_windows[u] ELSE <<>>, threads[t].now))
                /\ UNCHANGED last_message_time
           ELSE /\ last_message_time' = DictSet(last_message_time, u,
                                                threads[t].now)
                /\ UNCHANGED user_windows
    /\ threads' = At(t, "done")
    /\ UNCHANGED <<program, clock, window_size, max_requests, min_interval,
                   watch, last, audit, probe>>

NextThreads ==
    \/ Tick
    \/ \E t \in Threads, u \in Users : ThreadCall(t, u)
    \/ \E t \in Threads : ThreadNow(t)
    \/ \E t \in Threads : ThreadCleanup(t)
    \/ \E t \in Threads : ThreadCheck(t)
    \/ \E t \in Threads : ThreadWrite(t)

SpecThreads == Init /\ [][NextThreads]_vars

\* ------------------------------------------------------ any constructor argument
\* __init__ stores its arguments as they come: zero and negative ones too
AnyConfigs == ((-1..MaxWindow) \X (-1..MaxRequests))

AnyIntervals == -1..MaxInterval

\* SlidingWindowRateLimiter(window_size, max_requests) or
\* ThrottlingRateLimiter(min_interval), with any configuration
InitAnyConfig ==
    /\ program \in {"task01", "task02"}
    /\ clock = 0
    /\ \E cfg \in IF program = "task01"
                   THEN AnyConfigs
                   ELSE {<<DefaultWindowSize, DefaultMaxRequests>>} :
           /\ window_size = cfg[1]
           /\ max_requests = cfg[2]
    /\ min_interval \in IF program = "task02"
                        THEN AnyIntervals
                        ELSE {DefaultMinInterval}
    /\ user_windows = <<>>
    /\ last_message_time = <<>>
    /\ watch = "calls"
    /\ last = NoCall
    /\ audit = [u \in Users |-> <<>>]
    /\ probe = NoProbe
    /\ threads = [t \in Threads |-> Idle]

SpecAnyConfig == InitAnyConfig /\ [][Next]_vars

\* ================================================================ the claims
\* What the specification says, stated on the stores and the clock readings
\* alone, without the limiters' own operators.

Sliding == program = "task01"
Throttling == program = "task02"

\* the deque of u in a store, empty when u has no entry
Entry(windows, u) == IF u \in DOMAIN windows THEN windows[u] ELSE <<>>

\* the timestamps of u inside the window (now - window_size, now]
Live(windows, u, now) ==
    {i \in DOMAIN Entry(windows, u) : Entry(windows, u)[i] > now - window_size}

\* the smallest timestamp of u inside the window
Oldest(windows, u, now) ==
    CHOOSE t \in {Entry(windows, u)[i] : i \in Live(windows, u, now)} :
        \A i \in Live(windows, u, now) : t <= Entry(windows, u)[i]

\* the timestamps of u inside the window, in stored order
Pruned(windows, u, now) ==
    SelectSeq(Entry(windows, u), LAMBDA t : t > now - window_size)

IsSuffix(s, t) == \E k \in 0..Len(t) : s = SubSeq(t, k + 1, Len(t))

\* u's entry is the same in two stores
SameEntry(d, e, u) ==
    /\ (u \in DOMAIN d) = (u \in DOMAIN e)
    /\ u \in DOMAIN d => d[u] = e[u]

\* the store of the running program
Store == IF Sliding THEN user_windows ELSE last_message_time

\* ---------------------------------------------------------------------- C1
\* C1: for every identity u and every instant T, at most max_requests of the
\* accepted record_message(u) calls of the sliding window limiter have their
\* recorded timestamp in (T - window_size, T].  (audit keeps every accepted
\* timestamp back to window_size before the newest, and accepted timestamps
\* never decrease, so any window holding too many is seen when its newest
\* timestamp is accepted.)
C1_AtMostMaxPerWindow ==
    \A u \in Users : \A T \in Time :
        Cardinality({i \in DOMAIN audit[u] :
                        audit[u][i] > T - window_size /\ audit[u][i] <= T})
            <= max_requests

\* ---------------------------------------------------------------------- C2
\* C2: the timestamps stored by two consecutive accepted record_message calls
\* of one identity of the throttle differ by at least min_interval.
C2_AcceptedSpacing ==
    (Throttling /\ last.op = "record_message" /\ last.result
        /\ last.user \in DOMAIN last.before)
    => last_message_time[last.user] - last.before[last.user] >= min_interval

\* ---------------------------------------------------------------------- C3
\* C3: can_send_message(u) of the sliding window limiter, called at now,
\* returns True iff fewer than max_requests stored timestamps of u are
\* > now - window_size (a timestamp equal to now - window_size is expired).
C3_SlidingCanSendIff ==
    (Sliding /\ last.op = "can_send_message")
    => last.result =
          (Cardinality(Live(last.before, last.user, last.now)) < max_requests)

\* a can_send_message that is allowed only because a timestamp exactly at
\* the cutoff counts as expired
C3_Witness ==
    /\ Sliding /\ last.op = "can_send_message" /\ last.result
    /\ Len(Entry(last.before, last.user)) = max_requests
    /\ Head(Entry(last.before, last.user)) = last.now - window_size

\* ---------------------------------------------------------------------- C4
\* C4: can_send_message(u) of the throttle, called at now, returns True iff u
\* has no last-seen entry or now - lastSeen >= min_interval; a record_message
\* at lastSeen + min_interval is accepted, and one whose limit check is made
\* before that instant is rejected.
C4_ThrottlingCanSendIff ==
    /\ (Throttling /\ last.op = "can_send_message")
       => last.result =
             (last.user \notin DOMAIN last.before
                 \/ last.now - last.before[last.user] >= min_interval)
    /\ (Throttling /\ last.op = "record_message"
           /\ last.user \in DOMAIN last.before)
       => /\ last.now >= last.before[last.user] + min_interval => last.result
          /\ last.now2 < last.before[last.user] + min_interval => ~last.result

\* a can_send_message exactly min_interval after the last accepted record
C4_Witness ==
    /\ Throttling /\ last.op = "can_send_message" /\ last.result
    /\ last.user \in DOMAIN last.before
    /\ last.now - last.before[last.user] = min_interval

\* ---------------------------------------------------------------------- C5
\* C5: record_message(u) of the sliding window limiter, called at now, returns
\* True exactly when fewer than max_requests timestamps of u are inside the
\* window at now, and then u's sequence is those timestamps followed by now.
C5_SlidingRecordAppends ==
    (Sliding /\ last.op = "record_message")
    => /\ last.result =
            (Cardinality(Live(last.before, last.user, last.now)) < max_requests)
       /\ last.result =>
            /\ last.user \in DOMAIN user_windows
            /\ user_windows[last.user] =
                  Append(Pruned(last.before, last.user, last.now), last.now)

\* ---------------------------------------------------------------------- C6
\* C6: a record_message that returns False leaves the whole store as it was,
\* the sequence or last-seen value of its own identity included.
C6_RejectedRecordNoChange ==
    (last.op = "record_message" /\ ~last.result) => Store = last.before

\* a rejected record of the sliding window limiter made after the clock has
\* moved past the oldest stored timestamp of its identity
C6_Witness ==
    /\ Sliding /\ last.op = "record_message" /\ ~last.result
    /\ last.now2 > last.now
    /\ last.now > Head(last.before[last.user])

\* ---------------------------------------------------------------------- C7
\* C7: time_until_next_allowed(u) of the sliding window limiter, called at
\* now, returns 0 when fewer than max_requests timestamps of u are inside the
\* window, and max(0, oldest + window_size - now) otherwise; with
\* window_size = 10 and max_requests = 1 it returns 5 at now = 5 after an
\* accepted record at 0.
C7_SlidingTimeUntil ==
    (Sliding /\ last.op = "time_until_next_allowed")
    => /\ last.wait =
            IF Cardinality(Live(last.before, last.user, last.now)) < max_requests
            THEN 0
            ELSE Max0(Oldest(last.before, last.user, last.now)
                          + window_size - last.now)
       /\ (window_size = 10 /\ max_requests = 1 /\ last.now = 5
              /\ Entry(last.before, last.user) = <<0>>)
          => last.wait = 5

\* the scenario: record at 0 accepted, time_until_next_allowed at 5 says 5
C7_Witness ==
    /\ Sliding /\ last.op = "time_until_next_allowed"
    /\ window_size = 10 /\ max_requests = 1 /\ last.now = 5
    /\ Entry(last.before, last.user) = <<0>>
    /\ last.wait = 5

\* ---------------------------------------------------------------------- C8
\* C8: in both limiters, with no accepted record of u since an earlier
\* time_until_next_allowed(u) call (the probe), a later call returns no more
\* than the earlier one did, and returns 0 at or after the earlier call's
\* time plus its result.
C8_TimeUntilNonIncreasing ==
    (last.op = "time_until_next_allowed" /\ probe.user = last.user)
    => /\ probe.at <= last.now
       /\ last.wait <= probe.wait
       /\ last.now >= probe.at + probe.wait => last.wait = 0

\* a later call that returns less than the probe did, but not yet 0
C8_Witness ==
    /\ last.op = "time_until_next_allowed" /\ probe.user = last.user
    /\ probe.at < last.now
    /\ 0 < last.wait /\ last.wait < probe.wait

\* ---------------------------------------------------------------------- C9
\* C9: an operation on identity a leaves the stored state of every other
\* identity b as it was, and so leaves unchanged what can_send_message(b),
\* record_message(b) and time_until_next_allowed(b) return at any time.
C9_OtherIdentitiesUntouched ==
    last.op # "none" =>
      \A b \in Users \ {last.user} :
        /\ SameEntry(Store, last.before, b)
        /\ \A t \in Time : t >= clock =>
             IF Sliding
             THEN /\ SW_can_send_message(user_windows, b, t).result
                        = SW_can_send_message(last.before, b, t).result
                  /\ SW_time_until_next_allowed(user_windows, b, t).wait
                        = SW_time_until_next_allowed(last.before, b, t).wait
                  /\ \A t2 \in Later(t) :
                        SW_record_message(user_windows, b, t, t2).result
                           = SW_record_message(last.before, b, t, t2).result
             ELSE /\ TH_can_send_message(last_message_time, b, t)
                        = TH_can_send_message(last.before, b, t)
                  /\ TH_time_until_next_allowed(last_message_time, b, t)
                        = TH_time_until_next_allowed(last.before, b, t)
                  /\ \A t2 \in Later(t) :
                        TH_record_message(last_message_time, b, t, t2).result
                           = TH_record_message(last.before, b, t, t2).result

\* an operation on one identity while another identity holds timestamps that
\* have all left the window
C9_Witness ==
    /\ Sliding /\ last.op # "none"
    /\ \E b \in Users \ {last.user} :
          /\ b \in DOMAIN user_windows
          /\ Live(user_windows, b, last.now) = {}

\* --------------------------------------------------------------------- C10
\* C10: can_send_message never records a request: in the sliding window
\* limiter u's sequence afterwards is a suffix of the one before and no
\* identity gains an entry; in the throttle the store is unchanged.
C10_CanSendRecordsNothing ==
    last.op = "can_send_message" =>
      IF Sliding
      THEN /\ DOMAIN user_windows \subseteq DOMAIN last.before
           /\ IsSuffix(Entry(user_windows, last.user),
                       Entry(last.before, last.user))
           /\ \A b \in Users \ {last.user} :
                 SameEntry(user_windows, last.before, b)
      ELSE last_message_time = last.before

\* a can_send_message that returned True and pruned part of the sequence
C10_Witness ==
    /\ Sliding /\ last.op = "can_send_message" /\ last.result
    /\ last.user \in DOMAIN user_windows
    /\ Len(user_windows[last.user]) < Len(last.before[last.user])

\* --------------------------------------------------------------------- C11
\* what can_send_message(u) answers on a store when the clock reads now
CanSendNow(store, u, now) ==
    IF Sliding
    THEN SW_can_send_message(store, u, now).result
    ELSE TH_can_send_message(store, u, now)

\* C11: in both limiters, repeated can_send_message(u) calls with no
\* record_message in between and no advance of the clock return the same
\* result: the value a call returns is the one a repetition on the store it
\* leaves returns, and no call other than record_message changes, at the
\* clock reading it made, what can_send_message answers for any identity.
C11_CanSendRepeatable ==
    (last.op \in {"can_send_message", "time_until_next_allowed"})
    => /\ last.op = "can_send_message"
          => last.result = CanSendNow(Store, last.user, last.now)
       /\ \A u \in Users :
             CanSendNow(Store, u, last.now) = CanSendNow(last.before, u, last.now)

\* a can_send_message that pruned the sequence it found, so that a repetition
\* reads another store than it did
C11_Witness ==
    /\ Sliding /\ last.op = "can_send_message" /\ last.result
    /\ last.user \in DOMAIN user_windows
    /\ user_windows[last.user] # last.before[last.user]

\* --------------------------------------------------------------------- C12
\* the timestamp stored by the identity's last accepted record_message, in
\* the store a call found (0 when there is none)
LastAccepted(store, u) ==
    IF u \notin DOMAIN store THEN 0
    ELSE IF Sliding THEN store[u][Len(store[u])] ELSE store[u]

\* the effective spacing: window_size for the sliding window, min_interval for
\* the throttle
Spacing == IF Sliding THEN window_size ELSE min_interval

\* C12 as stated: in both limiters a record_message made less than the
\* effective spacing after a successful record_message of the same identity
\* returns false (the whole call, up to its last clock reading, lies inside
\* the spacing).
C12_NoSecondAdmission ==
    (last.op = "record_message" /\ last.user \in DOMAIN last.before
       /\ last.now2 - LastAccepted(last.before, last.user) < Spacing)
    => ~last.result

\* C12: amended. Throttle: a record_message whose clock readings are all less
\* than min_interval after the identity's last accepted timestamp returns
\* false. Sliding window: a record_message returns false when max_requests
\* accepted timestamps of the identity are less than window_size before its
\* last clock reading; one earlier accepted record is enough only when
\* max_requests = 1.
C12_NoAdmissionBeyondLimit ==
    (last.op = "record_message" /\ last.user \in DOMAIN last.before)
    => /\ (Throttling /\ last.now2 - last.before[last.user] < min_interval)
          => ~last.result
       /\ (Sliding /\ Cardinality(Live(last.before, last.user, last.now2))
                        >= max_requests)
          => ~last.result
       /\ (Sliding /\ max_requests = 1
             /\ last.now2 - LastAccepted(last.before, last.user) < window_size)
          => ~last.result

\* a sliding window record_message refused while two accepted timestamps are
\* inside the window, after one that was accepted inside it
C12_Witness ==
    /\ Sliding /\ max_requests = 2
    /\ last.op = "record_message" /\ ~last.result
    /\ Cardinality(Live(last.before, last.user, last.now2)) = 2

\* --------------------------------------------------------------------- C13
\* record_message as one indivisible call, on either limiter
RecordMessage(store, u, now, now2) ==
    IF Sliding THEN SW_record_message(store, u, now, now2)
               ELSE TH_record_message(store, u, now, now2)

\* the return values and the store when thread first makes its whole call, and
\* then thread second makes its own, on a new limiter, at clock readings up to
\* the present one
SerialOutcomes(first, second) ==
    {LET r1 == RecordMessage(<<>>, threads[first].user_id, n[1], n[2])
         r2 == RecordMessage(r1.store, threads[second].user_id, n[3], n[4])
     IN  [store |-> r2.store, r1 |-> r1.result, r2 |-> r2.result] :
       n \in {m \in [1..4 -> 0..clock] :
                m[1] <= m[2] /\ m[2] <= m[3] /\ m[3] <= m[4]}}

\* C13: when several callers use one limiter concurrently on the same
\* identity, each operation appears atomic: whatever the interleaving of the
\* statements of two record_message calls, their return values and the store
\* they leave are those of the two calls made one after the other, in one of
\* the two orders.
C13_CallsSerializable ==
    (threads[1].pc = "done" /\ threads[2].pc = "done")
    => \/ [store |-> Store, r1 |-> threads[1].result, r2 |-> threads[2].result]
             \in SerialOutcomes(1, 2)
       \/ [store |-> Store, r1 |-> threads[2].result, r2 |-> threads[1].result]
             \in SerialOutcomes(2, 1)

\* --------------------------------------------------------------------- C14
\* C14: constructing either limiter with a non-positive configuration
\* (window_size <= 0 or max_requests <= 0 for the sliding window,
\* min_interval <= 0 for the throttle) is rejected at construction: no
\* operation is ever invoked on a limiter with such a configuration.
C14_NonPositiveConfigRejected ==
    (last.op # "none")
    => /\ Sliding => (window_size > 0 /\ max_requests > 0)
       /\ Throttling => min_interval > 0

\* --------------------------------------------------------------------- C15
\* C15: an identity with no stored state is served as a fresh one by every
\* operation: can_send_message returns true, time_until_next_allowed returns
\* 0.0 and record_message returns true; and time_until_next_allowed returns
\* a value >= 0 for every identity and state.
C15_FreshIdentity ==
    /\ (last.op # "none" /\ last.user \notin DOMAIN last.before)
       => /\ last.op \in {"can_send_message", "record_message"} => last.result
          /\ last.op = "time_until_next_allowed" => last.wait = 0
          /\ last.op = "record_message" => last.user \in DOMAIN Store
    /\ last.op = "time_until_next_allowed" => last.wait >= 0
    /\ \A u \in Users :
          IF Sliding
          THEN SW_time_until_next_allowed(user_windows, u, clock).wait >= 0
          ELSE TH_time_until_next_allowed(last_message_time, u, clock) >= 0

\* an identity not yet stored has a record_message accepted after the other
\* identity was stored, later than the start
C15_Witness ==
    /\ last.op = "record_message" /\ last.result
    /\ last.user \notin DOMAIN last.before
    /\ DOMAIN last.before # {}
    /\ last.now > 0

\* --------------------------------------------------------------------- C16
\* every stored timestamp of u in the store is at or before the cutoff of now
AllExpired(windows, u, now) ==
    /\ u \in DOMAIN windows
    /\ \A i \in DOMAIN windows[u] : windows[u][i] <= now - window_size

\* C16: sliding window: no identity is mapped to an empty sequence in any
\* reachable state; an operation on u made when every stored timestamp of u
\* is at or before now - window_size removes u's key, and only an accepting
\* record_message creates a key (after such a removal it holds the new
\* timestamp alone).
C16_NoEmptySequence ==
    Sliding =>
      /\ \A u \in DOMAIN user_windows : user_windows[u] # <<>>
      /\ (last.op \in {"can_send_message", "time_until_next_allowed"}
            /\ AllExpired(last.before, last.user, last.now))
         => last.user \notin DOMAIN user_windows
      /\ (last.op = "record_message"
            /\ AllExpired(last.before, last.user, last.now))
         => (last.result /\ user_windows[last.user] = <<last.now>>)
      /\ last.op # "none"
         => \A u \in DOMAIN user_windows \ DOMAIN last.before :
               last.op = "record_message" /\ last.user = u /\ last.result

\* a can_send_message finds only expired timestamps of its identity and
\* leaves the identity without a key
C16_Witness ==
    /\ Sliding /\ last.op = "can_send_message"
    /\ AllExpired(last.before, last.user, last.now)
    /\ last.user \notin DOMAIN user_windows

\* --------------------------------------------------------------------- C17
\* C17: throttle: an identity has a last-seen entry exactly when at least one
\* record_message for it has returned true; the entry is never removed, and it
\* always equals the timestamp of the identity's most recent accepted record.
C17_LastSeenIsLastAccepted ==
    Throttling =>
      /\ watch = "audit"
         => \A u \in Users :
               /\ (u \in DOMAIN last_message_time) = (audit[u] # <<>>)
               /\ u \in DOMAIN last_message_time
                  => last_message_time[u] = audit[u][Len(audit[u])]
      /\ last.op # "none"
         => /\ DOMAIN last.before \subseteq DOMAIN last_message_time
            /\ \A u \in Users :
                  (last.op = "record_message" /\ last.user = u /\ last.result)
                  \/ SameEntry(last.before, last_message_time, u)

\* more than min_interval after its record was accepted an identity still has
\* its entry, the time of that record, and the other identity has none
C17_Witness ==
    /\ Throttling /\ watch = "audit"
    /\ \E u \in DOMAIN last_message_time :
          /\ last_message_time[u] > 0
          /\ clock > last_message_time[u] + min_interval
          /\ DOMAIN last_message_time = {u}

\* --------------------------------------------------------------------- C18
\* a sequence of timestamps in non-decreasing order
Sorted(window) ==
    \A i, j \in DOMAIN window : i <= j => window[i] <= window[j]

\* the timestamps of u an operation has left behind once it has pruned: all of
\* them, but for the one an accepted record_message appended afterwards
AfterPruning ==
    LET window == Entry(user_windows, last.user)
    IN  IF last.op = "record_message" /\ last.result
        THEN SubSeq(window, 1, Len(window) - 1)
        ELSE window

\* C18: sliding window: every stored sequence is sorted in non-decreasing
\* order in every reachable state, so that after the front-only pruning of an
\* operation run at time now every remaining timestamp t has
\* t > now - window_size (now being the clock reading of the last pruning the
\* operation made).
C18_SortedSoPruned ==
    Sliding =>
      /\ \A u \in DOMAIN user_windows : Sorted(user_windows[u])
      /\ last.op # "none"
         => \A i \in DOMAIN AfterPruning :
               AfterPruning[i] > last.now2 - window_size

\* a call has pruned the front of a sequence of two different timestamps and
\* kept the newer one
C18_Witness ==
    /\ Sliding /\ last.op = "can_send_message"
    /\ last.user \in DOMAIN last.before /\ last.user \in DOMAIN user_windows
    /\ Len(last.before[last.user]) = 2
    /\ last.before[last.user][1] < last.before[last.user][2]
    /\ user_windows[last.user] = <<last.before[last.user][2]>>

\* --------------------------------------------------------------------- C19
\* C19: sliding window with max_requests >= 1: in every reachable state the
\* length of every stored sequence is between 1 and max_requests inclusive.
C19_LengthWithinLimit ==
    (Sliding /\ max_requests >= 1)
    => \A u \in DOMAIN user_windows :
          Len(user_windows[u]) >= 1 /\ Len(user_windows[u]) <= max_requests

\* with max_requests = 2 a sequence has reached length 2 and a further
\* record_message of its identity has been refused
C19_Witness ==
    /\ Sliding /\ max_requests = 2
    /\ last.op = "record_message" /\ ~last.result
    /\ Len(user_windows[last.user]) = 2
    /\ DOMAIN user_windows = Users

\* --------------------------------------------------------------------- C20
\* the answers of time_until_next_allowed, can_send_message and record_message
\* for u on the running limiter when the clock reads now
WaitNow(u, now) ==
    IF Sliding THEN SW_time_until_next_allowed(user_windows, u, now).wait
               ELSE TH_time_until_next_allowed(last_message_time, u, now)

RecordNow(u, now) == RecordMessage(Store, u, now, now).result

\* C20: in both limiters, in every reachable state and at any single instant,
\* time_until_next_allowed(u) returns 0.0 exactly when can_send_message(u)
\* returns true, and a positive value exactly when can_send_message(u) returns
\* false (a record_message at that instant is then refused).  The instant is
\* the present clock reading; the clock reaches every later one with the
\* store as it is.
C20_WaitZeroIffCanSend ==
    \A u \in Users :
       /\ (WaitNow(u, clock) = 0) = CanSendNow(Store, u, clock)
       /\ (WaitNow(u, clock) > 0) = ~CanSendNow(Store, u, clock)
       /\ (WaitNow(u, clock) > 0) = ~RecordNow(u, clock)

\* both answers occur at the present instant: one identity must wait and
\* cannot send, the other need not wait and can
C20_Witness ==
    /\ \E u \in Users : WaitNow(u, clock) > 0 /\ ~CanSendNow(Store, u, clock)
    /\ \E u \in Users : WaitNow(u, clock) = 0 /\ CanSendNow(Store, u, clock)
    /\ DOMAIN Store = Users
    /\ clock > 0

====
